---------------------------- MODULE Spec2Model ----------------------------
(***************************************************************************)
(* Model of src/lib/wicked/client.js of cockpit-wicked: the conversion of  *)
(* wicked's XML output to plain objects (sanitizeXml, elementToJson,       *)
(* elementAttributes, XmlToJson) and the WickedClient operations built on  *)
(* it.                                                                     *)
(*                                                                         *)
(* Strings are sequences of one-character strings, so that the regular     *)
(* expressions of the source are computed character by character.          *)
(* JavaScript values are tagged records:                                   *)
(*   [t |-> "str", s |-> chars]          a string                          *)
(*   [t |-> "obj", m |-> key -> value]   a plain object (own properties;   *)
(*                                       their order is not modelled)      *)
(*   [t |-> "arr", items |-> sequence]   an Array                          *)
(*   [t |-> "undefined"]                 undefined                         *)
(***************************************************************************)
EXTENDS Integers, Sequences, FiniteSets, TLC

VARIABLES
    emptyTagsRegExp,  \* the module-level RegExp object (its lastIndex)
    xmlString,        \* sanitize runs: the text given to sanitizeXml
    pieces,           \* sanitize runs: number of fragments the text was built from
    sanitized,        \* sanitize runs: the results of the successive sanitizeXml calls
    element,          \* fold runs: the element given to elementToJson
    listElements,     \* fold runs: the listElements array
    folded,           \* fold runs: <<>> or <<result of elementToJson>>
    calls             \* client runs: the WickedClient calls in flight

vars == <<emptyTagsRegExp, xmlString, pieces, sanitized,
          element, listElements, folded, calls>>

(***************************************************************************)
(* Bounds of the model.                                                    *)
(***************************************************************************)
MaxPieces == 4
MaxNodes == 3
MaxCalls == 2

\* F applied to the value of v: v is evaluated once, as a const binding is.
With(v, F(_)) == CHOOSE r \in {F(x) : x \in {v}} : TRUE

(***************************************************************************)
(* Characters.  \w of the regular expression is [A-Za-z0-9_].              *)
(***************************************************************************)
Letters ==
    {"a", "b", "c", "d", "e", "f", "g", "h", "i", "j", "k", "l", "m", "n",
     "o", "p", "q", "r", "s", "t", "u", "v", "w", "x", "y", "z",
     "A", "B", "C", "D", "E", "F", "G", "H", "I", "J", "K", "L", "M", "N",
     "O", "P", "Q", "R", "S", "T", "U", "V", "W", "X", "Y", "Z"}

DigitChars == <<"0", "1", "2", "3", "4", "5", "6", "7", "8", "9">>

WordChars == Letters \cup {DigitChars[i] : i \in 1..10} \cup {"_"}

IsWordChar(c) == c \in WordChars

(***************************************************************************)
(* /<\w+\/>/ : matching at one position.  WordRun is the greedy \w+ ; as   *)
(* "/" is no word character, backtracking into the run never helps.        *)
(***************************************************************************)
RECURSIVE WordRun(_, _)
WordRun(s, j) ==
    IF j <= Len(s) /\ IsWordChar(s[j]) THEN 1 + WordRun(s, j + 1) ELSE 0

\* Length of the match of /<\w+\/>/ starting exactly at position i, 0 if none.
MatchAt(s, i) ==
    IF i >= 1 /\ i <= Len(s) /\ s[i] = "<"
    THEN LET k == WordRun(s, i + 1)
         IN IF /\ k >= 1
               /\ i + k + 2 <= Len(s)
               /\ s[i + k + 1] = "/"
               /\ s[i + k + 2] = ">"
            THEN k + 3
            ELSE 0
    ELSE 0

\* First position >= from where the expression matches, 0 if there is none.
RECURSIVE FindMatch(_, _)
FindMatch(s, from) ==
    IF from > Len(s) THEN 0
    ELSE IF MatchAt(s, from) > 0 THEN from
    ELSE FindMatch(s, from + 1)

(***************************************************************************)
(* RegExpBuiltinExec of a global expression: the search starts at the      *)
(* object's lastIndex; a match leaves lastIndex at its end, a failure      *)
(* resets it to 0.  Positions are 1-based here, lastIndex is 0-based.      *)
(***************************************************************************)
RegExpExec(rx, s) ==
    LET at == FindMatch(s, rx.lastIndex + 1)
    IN IF at = 0
       THEN [found |-> FALSE, index |-> 0, length |-> 0, rx |-> [lastIndex |-> 0]]
       ELSE [found |-> TRUE, index |-> at, length |-> MatchAt(s, at),
             rx |-> [lastIndex |-> at + MatchAt(s, at) - 1]]

SubSeqFrom(s, i) == SubSeq(s, i, Len(s))

(***************************************************************************)
(* String.prototype.replace(rx, '') with a global rx: the loop of          *)
(* RegExp.prototype[Symbol.replace].  copied is the number of characters   *)
(* of s already dealt with, out the output so far.                         *)
(***************************************************************************)
RECURSIVE ReplaceLoop(_, _, _, _)
ReplaceLoop(rx, s, copied, out) ==
    LET r == RegExpExec(rx, s)
    IN IF ~r.found
       THEN [value |-> out \o SubSeqFrom(s, copied + 1), rx |-> r.rx]
       ELSE ReplaceLoop(r.rx, s, r.index + r.length - 1,
                        out \o SubSeq(s, copied + 1, r.index - 1))

\* A mutant: an expression without the g flag replaces the first match only.
StringReplaceFirstOnly(rx, s) ==
    LET r == RegExpExec([lastIndex |-> 0], s)
    IN IF ~r.found
       THEN [value |-> s, rx |-> rx]
       ELSE [value |-> SubSeq(s, 1, r.index - 1)
                         \o SubSeqFrom(s, r.index + r.length),
             rx |-> rx]

\* A mutant: the search resumes at the lastIndex the previous use left and
\* leaves lastIndex at the end of the last match (exec/test semantics).
RECURSIVE StickyLoop(_, _, _, _)
StickyLoop(rx, s, copied, out) ==
    LET r == RegExpExec(rx, s)
    IN IF ~r.found
       THEN [value |-> out \o SubSeqFrom(s, copied + 1), rx |-> rx]
       ELSE StickyLoop(r.rx, s, r.index + r.length - 1,
                       out \o SubSeq(s, copied + 1, r.index - 1))

StringReplaceSticky(rx, s) == StickyLoop(rx, s, 0, <<>>)

\* s.replace(rx, ''): a global replace first sets rx.lastIndex to 0.
StringReplace(rx, s) ==
    ReplaceLoop([lastIndex |-> 0], s, 0, <<>>)

\* sanitizeXml: the result and the state it leaves the shared RegExp in.
sanitizeXml(rx, s) == StringReplace(rx, s)

(***************************************************************************)
(* Sanitize runs: a text is built from fragments, then sanitized twice.    *)
(***************************************************************************)
TextPieces ==
    {<<"<">>, <<"a">>, <<"/">>, <<">">>, <<"-">>, <<"<", "a">>, <<"/", ">">>}

NoElement == [localName |-> <<>>, attributes |-> <<>>, children |-> <<>>,
              textContent |-> <<>>]

InitSanitize ==
    /\ emptyTagsRegExp = [lastIndex |-> 0]
    /\ xmlString = <<>>
    /\ pieces = 0
    /\ sanitized = <<>>
    /\ element = NoElement
    /\ listElements = <<>>
    /\ folded = <<>>
    /\ calls = <<>>

AppendPiece ==
    /\ sanitized = <<>>
    /\ pieces < MaxPieces
    /\ \E p \in TextPieces : xmlString' = xmlString \o p
    /\ pieces' = pieces + 1
    /\ UNCHANGED <<emptyTagsRegExp, sanitized, element, listElements, folded, calls>>

\* sanitizeXml(xmlString)
Sanitize ==
    /\ sanitized = <<>>
    /\ LET r == sanitizeXml(emptyTagsRegExp, xmlString)
       IN /\ sanitized' = <<r.value>>
          /\ emptyTagsRegExp' = r.rx
    /\ UNCHANGED <<xmlString, pieces, element, listElements, folded, calls>>

\* sanitizeXml(sanitizeXml(xmlString))
SanitizeAgain ==
    /\ Len(sanitized) = 1
    /\ LET r == sanitizeXml(emptyTagsRegExp, sanitized[1])
       IN /\ sanitized' = Append(sanitized, r.value)
          /\ emptyTagsRegExp' = r.rx
    /\ UNCHANGED <<xmlString, pieces, element, listElements, folded, calls>>

NextSanitize == AppendPiece \/ Sanitize \/ SanitizeAgain

SpecSanitize == InitSanitize /\ [][NextSanitize]_vars

(***************************************************************************)
(* Occurrences of an empty self-closing tag, stated without the scanner:   *)
(* <<i, j>> is one when s[i..j] is "<", one or more word characters, "/>". *)
(***************************************************************************)
Occurrences(s) ==
    {ij \in (1..Len(s)) \X (1..Len(s)) :
        /\ ij[2] >= ij[1] + 3
        /\ s[ij[1]] = "<"
        /\ s[ij[2] - 1] = "/"
        /\ s[ij[2]] = ">"
        /\ \A k \in (ij[1] + 1)..(ij[2] - 2) : IsWordChar(s[k])}

Covered(s) == {k \in 1..Len(s) : \E ij \in Occurrences(s) : ij[1] <= k /\ k <= ij[2]}

RECURSIVE KeepFrom(_, _, _)
KeepFrom(s, drop, i) ==
    IF i > Len(s) THEN <<>>
    ELSE (IF i \in drop THEN <<>> ELSE <<s[i]>>) \o KeepFrom(s, drop, i + 1)

\* s without the characters of its occurrences.
WithoutOccurrences(s) == KeepFrom(s, Covered(s), 1)

\* C1 (as amended): sanitizeXml deletes, in one pass, exactly the
\* occurrences of <\w+/> present in its input and keeps every other
\* character in order; a second run changes the result exactly when the
\* first result still contains an occurrence (one formed by a deletion).
C1_SinglePass ==
    /\ Len(sanitized) >= 1 => sanitized[1] = WithoutOccurrences(xmlString)
    /\ Len(sanitized) = 2 =>
          /\ sanitized[2] = WithoutOccurrences(sanitized[1])
          /\ (sanitized[2] = sanitized[1]) <=> (Occurrences(sanitized[1]) = {})

\* C1 witness: a text with an empty tag nested in another was sanitized twice.
C1_Witness ==
    /\ Len(sanitized) = 2
    /\ Occurrences(xmlString) # {}
    /\ Occurrences(sanitized[1]) # {}
    /\ sanitized[2] # sanitized[1]

\* C1 (as stated): after sanitizeXml no empty self-closing tag is left and
\* sanitizing again changes nothing.
C1_RemovesAllAndIdempotent ==
    /\ Len(sanitized) >= 1 => Occurrences(sanitized[1]) = {}
    /\ Len(sanitized) = 2 => sanitized[2] = sanitized[1]


(***************************************************************************)
(* JavaScript values.                                                      *)
(***************************************************************************)
Str(s) == [t |-> "str", s |-> s]
Obj(m) == [t |-> "obj", m |-> m]
Arr(items) == [t |-> "arr", items |-> items]
Undefined == [t |-> "undefined"]

EmptyMap == <<>>

\* The property name of array index i (0-based): String(i), for i < 100.
IndexKey(i) ==
    IF i < 10 THEN <<DigitChars[i + 1]>>
    ELSE <<DigitChars[(i \div 10) + 1], DigitChars[(i % 10) + 1]>>

AttrsKey == <<"_", "a", "t", "t", "r", "s">>

\* The own enumerable properties an object spread {...v} copies.
Spread(v) ==
    CASE v.t = "obj" -> v.m
      [] v.t = "arr" -> [k \in {IndexKey(i - 1) : i \in 1..Len(v.items)} |->
                            LET i == CHOOSE j \in 1..Len(v.items) : IndexKey(j - 1) = k
                            IN v.items[i]]
      [] v.t = "str" -> [k \in {IndexKey(i - 1) : i \in 1..Len(v.s)} |->
                            LET i == CHOOSE j \in 1..Len(v.s) : IndexKey(j - 1) = k
                            IN Str(<<v.s[i]>>)]
      [] OTHER -> EmptyMap

\* A mutant: the first write of a key wins.
MergeMapsFirstWins(a, b) ==
    [k \in (DOMAIN a) \cup (DOMAIN b) |-> IF k \in DOMAIN a THEN a[k] ELSE b[k]]

\* { ...a, ...b } on property maps: the properties of b overwrite those of a.
MergeMaps(a, b) ==
    [k \in (DOMAIN a) \cup (DOMAIN b) |-> IF k \in DOMAIN b THEN b[k] ELSE a[k]]

\* { [key]: value }
Obj1(key, value) == Obj([k \in {key} |-> value])

\* Object.values(v)[0] of an object with a single property.
FirstValue(v) == v.m[CHOOSE k \in DOMAIN v.m : TRUE]

\* A mutant: String.replace('-', '_') replaces the first hyphen only.
RECURSIVE ReplaceFirstHyphen(_)
ReplaceFirstHyphen(name) ==
    IF name = <<>> THEN <<>>
    ELSE IF Head(name) = "-" THEN <<"_">> \o Tail(name)
    ELSE <<Head(name)>> \o ReplaceFirstHyphen(Tail(name))

\* localName.replace(/-/g, '_')
RECURSIVE ReplaceHyphens(_)
ReplaceHyphens(name) ==
    IF name = <<>> THEN <<>>
    ELSE <<IF Head(name) = "-" THEN "_" ELSE Head(name)>> \o ReplaceHyphens(Tail(name))

\* listElements.includes(key)
Includes(array, key) == \E i \in 1..Len(array) : array[i] = key

\* elementAttributes: Array.from(element.attributes).reduce(...)
RECURSIVE ReduceAttributes(_, _)
ReduceAttributes(all, attributes) ==
    IF attributes = <<>> THEN all
    ELSE ReduceAttributes(
             MergeMaps(all, [k \in {Head(attributes).nodeName} |->
                                Str(Head(attributes).nodeValue)]),
             Tail(attributes))

elementAttributes(e) == Obj(ReduceAttributes(EmptyMap, e.attributes))

\* value.reduce((all, child) => ({ ...all, ...child }), {})
RECURSIVE ReduceChildren(_, _)
ReduceChildren(all, values) ==
    IF values = <<>> THEN all
    ELSE ReduceChildren(MergeMaps(all, Spread(Head(values))), Tail(values))

\* value.map(v => Object.values(v)[0])
UnwrapValues(values) == Arr([i \in 1..Len(values) |-> FirstValue(values[i])])

\* A mutant: _attrs is attached whether or not there are attributes.
AttachAttrsAlways(value, attrs) ==
    Obj(MergeMaps(Spread(value), [k \in {AttrsKey} |-> attrs]))

\* if (Object.keys(attrs).length > 0) value = { ...value, _attrs: attrs }
AttachAttrs(value, attrs) ==
    IF Cardinality(DOMAIN attrs.m) > 0
    THEN Obj(MergeMaps(Spread(value), [k \in {AttrsKey} |-> attrs]))
    ELSE value

RECURSIVE elementToJson(_, _)
elementToJson(e, list) ==
    LET children == e.children
        key == ReplaceHyphens(e.localName)
    IN IF Len(children) = 0
       THEN Obj1(key, Str(e.textContent))
       ELSE LET mapped == [i \in 1..Len(children) |-> elementToJson(children[i], list)]
                value == IF Includes(list, key)
                         THEN UnwrapValues(mapped)
                         ELSE Obj(ReduceChildren(EmptyMap, mapped))
            IN Obj1(key, AttachAttrs(value, elementAttributes(e)))

(***************************************************************************)
(* Fold runs: elementToJson on every element of at most MaxNodes nodes.    *)
(***************************************************************************)
Names == {<<"a">>, <<"b", "-", "c", "-", "d">>, <<"b", "_", "c", "_", "d">>}

AttributeLists ==
    {<<>>,
     <<[nodeName |-> <<"i", "d">>, nodeValue |-> <<"5">>],
       [nodeName |-> <<"n">>, nodeValue |-> <<>>]>>}

Texts == {<<>>, <<"x">>}

ListElementsChoices ==
    {<<>>,
     <<<<"a">>>>,
     <<<<"b", "_", "c", "_", "d">>>>,
     <<<<"b", "-", "c", "-", "d">>>>,
     <<<<"a">>, <<"b", "_", "c", "_", "d">>>>}

RECURSIVE ConcatText(_)
ConcatText(children) ==
    IF children = <<>> THEN <<>>
    ELSE Head(children).textContent \o ConcatText(Tail(children))

\* The elements of exactly n nodes, and the non-empty child lists of n nodes.
RECURSIVE Trees(_), Forests(_)
Trees(n) ==
    IF n = 1
    THEN {[localName |-> nm, attributes |-> at, children |-> <<>>, textContent |-> tx] :
             nm \in Names, at \in AttributeLists, tx \in Texts}
    ELSE {[localName |-> nm, attributes |-> at, children |-> f,
           textContent |-> ConcatText(f)] :
             nm \in Names, at \in AttributeLists, f \in Forests(n - 1)}

Forests(m) ==
    UNION {{<<t>> \o f : t \in Trees(k),
                         f \in (IF m = k THEN {<<>>} ELSE Forests(m - k))} :
           k \in 1..m}

Elements == UNION {Trees(n) : n \in 1..MaxNodes}

InitFold ==
    /\ emptyTagsRegExp = [lastIndex |-> 0]
    /\ xmlString = <<>>
    /\ pieces = 0
    /\ sanitized = <<>>
    /\ element \in Elements
    /\ listElements \in ListElementsChoices
    /\ folded = <<>>
    /\ calls = <<>>

\* elementToJson(element, listElements)
Fold ==
    /\ folded = <<>>
    /\ folded' = <<elementToJson(element, listElements)>>
    /\ UNCHANGED <<emptyTagsRegExp, xmlString, pieces, sanitized, element,
                   listElements, calls>>

NextFold == Fold

SpecFold == InitFold /\ [][NextFold]_vars

(***************************************************************************)
(* What the claims about the fold speak of, stated on the element itself.  *)
(***************************************************************************)
\* The tag name with every hyphen replaced by an underscore.
NormalizedName(name) == [i \in 1..Len(name) |-> IF name[i] = "-" THEN "_" ELSE name[i]]

HasChildren == Len(element.children) > 0
IsListTag == \E i \in 1..Len(listElements) : listElements[i] = NormalizedName(element.localName)
HasAttributes == Len(element.attributes) > 0

\* The value the fold gave the element, under its normalized tag name.
FoldedValue == folded[1].m[NormalizedName(element.localName)]

\* The single value of child i, folded on its own.
ChildValue(i) ==
    elementToJson(element.children[i], listElements).m[
        NormalizedName(element.children[i].localName)]

ChildKeys == {NormalizedName(element.children[i].localName) : i \in 1..Len(element.children)}

\* The last child, in document order, carrying key k.
LastChildWith(k) ==
    CHOOSE i \in 1..Len(element.children) :
        /\ NormalizedName(element.children[i].localName) = k
        /\ \A j \in (i + 1)..Len(element.children) :
               NormalizedName(element.children[j].localName) # k

\* The attribute name-to-value mapping of the element.
AttributeMapping ==
    Obj([k \in {element.attributes[i].nodeName : i \in 1..Len(element.attributes)} |->
            LET i == CHOOSE j \in 1..Len(element.attributes) :
                         element.attributes[j].nodeName = k
            IN Str(element.attributes[i].nodeValue)])

\* C10: a childless element folds to exactly { normalized name: textContent },
\* with every hyphen of the name replaced; its attributes are dropped,
\* whether or not the tag is a list tag.
C10_Leaf ==
    (folded # <<>> /\ ~HasChildren) =>
        /\ folded[1].t = "obj"
        /\ DOMAIN folded[1].m = {NormalizedName(element.localName)}
        /\ FoldedValue = Str(element.textContent)

\* C10 witness: a childless list-tag element with two hyphens and attributes.
C10_Witness ==
    /\ folded # <<>>
    /\ ~HasChildren
    /\ HasAttributes
    /\ IsListTag
    /\ Cardinality({i \in 1..Len(element.localName) : element.localName[i] = "-"}) = 2
    /\ element.textContent = <<>>

\* C3: under a non-list parent the children merge into one object in which
\* each normalized child key holds the value of the last child carrying it.
C3_LastWriteWins ==
    (folded # <<>> /\ HasChildren /\ ~IsListTag) =>
        /\ FoldedValue.t = "obj"
        /\ (DOMAIN FoldedValue.m) \ {AttrsKey} = ChildKeys
        /\ \A k \in ChildKeys : FoldedValue.m[k] = ChildValue(LastChildWith(k))

\* C3 witness: two children whose raw names differ by hyphen versus
\* underscore, with different values, under a non-list parent.
C3_Witness ==
    /\ folded # <<>>
    /\ HasChildren
    /\ ~IsListTag
    /\ Len(element.children) = 2
    /\ element.children[1].localName # element.children[2].localName
    /\ NormalizedName(element.children[1].localName)
         = NormalizedName(element.children[2].localName)
    /\ ChildValue(1) # ChildValue(2)

\* C6: a non-list element with children and attributes carries the merge of
\* its children plus _attrs, the attribute mapping; without attributes it
\* carries no _attrs entry.
C6_AttrsAttached ==
    (folded # <<>> /\ HasChildren /\ ~IsListTag) =>
        /\ FoldedValue.t = "obj"
        /\ \A k \in ChildKeys : FoldedValue.m[k] = ChildValue(LastChildWith(k))
        /\ HasAttributes =>
              /\ DOMAIN FoldedValue.m = ChildKeys \cup {AttrsKey}
              /\ FoldedValue.m[AttrsKey] = AttributeMapping
              /\ DOMAIN FoldedValue.m[AttrsKey].m # {}
        /\ ~HasAttributes => AttrsKey \notin DOMAIN FoldedValue.m

\* C6 witness: a non-list element with attributes and a child.
C6_Witness ==
    /\ folded # <<>>
    /\ HasChildren
    /\ ~IsListTag
    /\ HasAttributes
    /\ AttrsKey \in DOMAIN FoldedValue.m

\* The children's single values, in document order.
ChildValues == [i \in 1..Len(element.children) |-> ChildValue(i)]

\* C2: an element with children folds to the ordered sequence of its
\* children's values exactly when its normalized name is a list tag.
C2_ListFold ==
    (folded # <<>> /\ HasChildren) =>
        /\ IsListTag => FoldedValue = Arr(ChildValues)
        /\ ~IsListTag => FoldedValue.t # "arr"

\* C4: a list-tag element with children and attributes still holds the
\* ordered sequence of its children's values, with _attrs beside it.
C4_ListKeptBesideAttrs ==
    (folded # <<>> /\ HasChildren /\ IsListTag /\ HasAttributes) =>
        \/ FoldedValue = Arr(ChildValues)
        \/ /\ FoldedValue.t = "obj"
           /\ AttrsKey \in DOMAIN FoldedValue.m
           /\ FoldedValue.m[AttrsKey] = AttributeMapping
           /\ \E k \in DOMAIN FoldedValue.m : FoldedValue.m[k] = Arr(ChildValues)


(***************************************************************************)
(* new DOMParser().parseFromString(text, 'text/html') and                  *)
(* getElementsByTagName('body'), for texts made of start tags <name>,      *)
(* end tags </name> and character data (no attributes, comments or         *)
(* entities, and no element the HTML parser treats specially other than    *)
(* frameset).  As in HTML, the "/" of <name/> is ignored on such elements: *)
(* the tag opens an element.                                               *)
(***************************************************************************)
IsTagNameChar(c) == c \notin {" ", "/", ">"}

RECURSIVE TagNameRun(_, _)
TagNameRun(s, j) ==
    IF j <= Len(s) /\ IsTagNameChar(s[j]) THEN 1 + TagNameRun(s, j + 1) ELSE 0

\* The token starting at position i and the number of characters it takes.
TokenAt(s, i) ==
    LET isEnd == s[i] = "<" /\ i + 1 <= Len(s) /\ s[i + 1] = "/"
        from == IF isEnd THEN i + 2 ELSE i + 1
        k == IF s[i] = "<" /\ from <= Len(s) /\ s[from] \in Letters
             THEN TagNameRun(s, from) ELSE 0
        after == from + k
    IN IF k >= 1 /\ after <= Len(s) /\ s[after] = ">"
       THEN [kind |-> IF isEnd THEN "end" ELSE "start",
             name |-> SubSeq(s, from, after - 1), size |-> after - i + 1]
       ELSE IF /\ k >= 1 /\ ~isEnd /\ after + 1 <= Len(s)
               /\ s[after] = "/" /\ s[after + 1] = ">"
       THEN [kind |-> "start", name |-> SubSeq(s, from, after - 1),
             size |-> after - i + 2]
       ELSE [kind |-> "text", name |-> <<s[i]>>, size |-> 1]

RECURSIVE Tokenize(_, _)
Tokenize(s, i) ==
    IF i > Len(s) THEN <<>>
    ELSE With(TokenAt(s, i), LAMBDA tok :
             <<tok>> \o With(i + tok.size, LAMBDA next : Tokenize(s, next)))

NewElement(name) ==
    [localName |-> name, attributes |-> <<>>, children |-> <<>>, textContent |-> <<>>]

\* The stack of open elements with its top elements closed down to depth.
\* The stack with its top element closed: appended to its parent's children.
CloseTop(stack) ==
    LET n == Len(stack)
    IN SubSeq(stack, 1, n - 2)
         \o <<[stack[n - 1] EXCEPT !.children = Append(@, stack[n])]>>

\* The stack of open elements with its top elements closed down to depth.
RECURSIVE CloseTo(_, _)
CloseTo(stack, depth) ==
    IF Len(stack) <= depth THEN stack
    ELSE With(CloseTop(stack), LAMBDA closed : CloseTo(closed, depth))

\* The stack of open elements after one token.
TreeStep(stack, tok) ==
    CASE tok.kind = "start" -> Append(stack, NewElement(tok.name))
      [] tok.kind = "text" ->
           [d \in 1..Len(stack) |-> [stack[d] EXCEPT !.textContent = @ \o tok.name]]
      [] OTHER ->
           LET open == {d \in 2..Len(stack) : stack[d].localName = tok.name}
           IN IF open = {} THEN stack
              ELSE CloseTo(stack, (CHOOSE d \in open : \A o \in open : o <= d) - 1)

RECURSIVE BuildTree(_, _, _)
BuildTree(tokens, i, stack) ==
    IF i > Len(tokens) THEN CloseTo(stack, 1)[1]
    ELSE With(TreeStep(stack, tokens[i]), LAMBDA after :
             With(i + 1, LAMBDA next : BuildTree(tokens, next, after)))

BodyName == <<"b", "o", "d", "y">>
FramesetName == <<"f", "r", "a", "m", "e", "s", "e", "t">>

\* dom.getElementsByTagName('body'): a document that starts with a frameset
\* has no body element.
ParseBodies(text) ==
    With(Tokenize(text, 1), LAMBDA tokens :
        IF tokens # <<>> /\ tokens[1].kind = "start" /\ tokens[1].name = FramesetName
        THEN <<>>
        ELSE With(<<NewElement(BodyName)>>, LAMBDA stack :
                 <<BuildTree(tokens, 1, stack)>>))

(***************************************************************************)
(* XmlToJson.  A call yields the value returned or the error thrown, and   *)
(* the state it leaves the shared RegExp in.                               *)
(***************************************************************************)
Error(name) == [t |-> "error", name |-> name]

Return(v, rx) == [threw |-> FALSE, value |-> v, rx |-> rx]
Throw(e, rx) == [threw |-> TRUE, value |-> e, rx |-> rx]

XmlToJson(rx, text, list) ==
    With(sanitizeXml(rx, text), LAMBDA clean :
        With(ParseBodies(clean.value), LAMBDA bodies :
            IF bodies = <<>>
            THEN \* body is undefined: element.children throws a TypeError
                 Throw(Error("TypeError"), clean.rx)
            ELSE With(elementToJson(bodies[1], list), LAMBDA result :
                     Return(result.m[BodyName], clean.rx))))

\* const [data] = v
DestructureFirst(v, rx) ==
    CASE v.t = "arr" -> Return(IF v.items = <<>> THEN Undefined ELSE v.items[1], rx)
      [] v.t = "str" -> Return(IF v.s = <<>> THEN Undefined ELSE Str(<<v.s[1]>>), rx)
      [] OTHER -> Throw(Error("TypeError"), rx)   \* not iterable

(***************************************************************************)
(* WickedClient.  A promise is pending, fulfilled with a value or rejected *)
(* with an error.                                                          *)
(***************************************************************************)
Pending == [state |-> "pending", value |-> Undefined]
Fulfilled(v) == [state |-> "fulfilled", value |-> v]
Rejected(e) == [state |-> "rejected", value |-> e]

Slaves == <<"s", "l", "a", "v", "e", "s">>
Ipv4Static == <<"i", "p", "v", "4", ":", "s", "t", "a", "t", "i", "c">>
Ipv6Static == <<"i", "p", "v", "6", ":", "s", "t", "a", "t", "i", "c">>
Ports == <<"p", "o", "r", "t", "s">>

AsyncOps == {"getInterfaces", "getConfigurations", "getInterface"}
Ops == AsyncOps \cup {"reloadConnection"}

\* The listElements literal each operation passes to XmlToJson.
ListElementsOf(op) ==
    IF op = "getConfigurations"
    THEN <<BodyName, Slaves, Ipv4Static, Ipv6Static, Ports>>
    ELSE <<BodyName>>

\* The wicked command each operation spawns.
CommandOf(op) ==
    CASE op = "getInterfaces" -> [argv |-> "show-xml", superuser |-> FALSE]
      [] op = "getConfigurations" -> [argv |-> "show-config", superuser |-> FALSE]
      [] op = "getInterface" -> [argv |-> "show-xml name", superuser |-> FALSE]
      [] OTHER -> [argv |-> "ifreload name", superuser |-> TRUE]

\* A mutant: a failed execution is swallowed and read as empty output.
AwaitSwallowing(promise, rx) ==
    IF promise.state = "rejected" THEN Return(Str(<<>>), rx)
    ELSE Return(promise.value, rx)

\* await promise, once the promise is settled.
Await(promise, rx) ==
    IF promise.state = "rejected" THEN Throw(promise.value, rx)
    ELSE Return(promise.value, rx)

\* The rest of an async operation after its await: the settlement of the
\* promise it returned, the RegExp state, and the number of conversions run.
AsyncBody(op, list, promise, rx) ==
    With(Await(promise, rx), LAMBDA stdout :
        IF stdout.threw
        THEN [outcome |-> Rejected(stdout.value), rx |-> stdout.rx, conversions |-> 0]
        ELSE With(XmlToJson(stdout.rx, stdout.value.s, list), LAMBDA json :
                 LET result == IF json.threw \/ op # "getInterface" THEN json
                               ELSE DestructureFirst(json.value, json.rx)
                 IN [outcome |-> IF result.threw THEN Rejected(result.value)
                                 ELSE Fulfilled(result.value),
                     rx |-> result.rx, conversions |-> 1]))

(***************************************************************************)
(* Client runs: up to MaxCalls operations in flight.                       *)
(***************************************************************************)
Stdouts ==
    {<<>>,
     <<"x">>,
     <<"<", "n", ">", "x", "<", "/", "n", ">", "<", "e", "/", ">",
       "<", "n", ">", "y", "<", "/", "n", ">">>,
     <<"<", "m", ">", "<", "n", ">", "x", "<", "/", "n", ">", "<", "e", "/", ">",
       "<", "/", "m", ">">>,
     <<"<", "f", "r", "a", "m", "e", "s", "e", "t", ">">>}

SpawnErrors == {Error("ProcessError"), Error("NotFound")}

IdleCall ==
    [pc |-> "idle", op |-> "none", command |-> [argv |-> "", superuser |-> FALSE],
     list |-> <<>>, spawn |-> Pending, outcome |-> Pending, conversions |-> 0]

Init ==
    /\ emptyTagsRegExp = [lastIndex |-> 0]
    /\ xmlString = <<>>
    /\ pieces = 0
    /\ sanitized = <<>>
    /\ element = NoElement
    /\ listElements = <<>>
    /\ folded = <<>>
    /\ calls = [i \in 1..MaxCalls |-> IdleCall]

\* An operation is called: it spawns its command and, if async, suspends at
\* the await; reloadConnection returns the spawn promise itself.
Call(i, op) ==
    /\ calls[i].pc = "idle"
    /\ calls' = [calls EXCEPT ![i] =
                    [@ EXCEPT !.pc = "awaiting", !.op = op,
                              !.command = CommandOf(op),
                              !.list = ListElementsOf(op)]]
    /\ UNCHANGED <<emptyTagsRegExp, xmlString, pieces, sanitized, element,
                   listElements, folded>>

\* The spawn promise of call i settles.
Settle(i, promise) ==
    /\ calls[i].pc = "awaiting"
    /\ calls' = [calls EXCEPT ![i] =
                    IF calls[i].op \in AsyncOps
                    THEN [@ EXCEPT !.pc = "settled", !.spawn = promise]
                    ELSE [@ EXCEPT !.pc = "done", !.spawn = promise,
                                   !.outcome = promise]]
    /\ UNCHANGED <<emptyTagsRegExp, xmlString, pieces, sanitized, element,
                   listElements, folded>>

SpawnSucceeds(i) == \E text \in Stdouts : Settle(i, Fulfilled(Str(text)))

SpawnFails(i) == \E e \in SpawnErrors : Settle(i, Rejected(e))

\* The async operation of call i resumes after its await and runs to its end.
Resume(i) ==
    /\ calls[i].pc = "settled"
    /\ \E r \in {AsyncBody(calls[i].op, calls[i].list, calls[i].spawn, emptyTagsRegExp)} :
          /\ calls' = [calls EXCEPT ![i] =
                          [@ EXCEPT !.pc = "done", !.outcome = r.outcome,
                                    !.conversions = @ + r.conversions]]
          /\ emptyTagsRegExp' = r.rx
    /\ UNCHANGED <<xmlString, pieces, sanitized, element, listElements, folded>>

Next ==
    \/ \E i \in 1..MaxCalls, op \in Ops : Call(i, op)
    \/ \E i \in 1..MaxCalls : SpawnSucceeds(i)
    \/ \E i \in 1..MaxCalls : SpawnFails(i)
    \/ \E i \in 1..MaxCalls : Resume(i)

Spec == Init /\ [][Next]_vars

(***************************************************************************)
(* What the claims about the client speak of.                              *)
(***************************************************************************)
CallIds == 1..MaxCalls

\* Call i is an async operation that ran to its end on a captured text.
Converted(i) ==
    /\ calls[i].pc = "done"
    /\ calls[i].op \in AsyncOps
    /\ calls[i].spawn.state = "fulfilled"

\* The body elements of the document parsed from the sanitized text of call i.
BodiesOf(i) == ParseBodies(WithoutOccurrences(calls[i].spawn.value.s))

\* The Structure of child k of the root container of call i.
RecordOf(i, k) ==
    LET child == BodiesOf(i)[1].children[k]
    IN elementToJson(child, ListElementsOf(calls[i].op)).m[NormalizedName(child.localName)]

\* What call i settles to when it runs alone, on a fresh module.
AloneOutcome(i) ==
    AsyncBody(calls[i].op, ListElementsOf(calls[i].op), calls[i].spawn,
              [lastIndex |-> 0]).outcome

\* C5: a conversion whose parsed document has no body fails with a
\* MalformedInputError, and with no other kind of error.
C5_MalformedInputError ==
    \A i \in CallIds :
        (Converted(i) /\ BodiesOf(i) = <<>>) =>
            calls[i].outcome = Rejected(Error("MalformedInputError"))

\* C7: on a successful execution getInterfaces and getConfigurations resolve
\* to the sequence of the Structures of the root container's children, in
\* document order, also when there are none; getInterface to the first.
C7_SequenceOfStructures ==
    \A i \in CallIds :
        (Converted(i) /\ BodiesOf(i) # <<>>) =>
            LET n == Len(BodiesOf(i)[1].children)
            IN /\ calls[i].outcome.state = "fulfilled"
               /\ calls[i].op # "getInterface" =>
                     calls[i].outcome.value = Arr([k \in 1..n |-> RecordOf(i, k)])
               /\ (calls[i].op = "getInterface" /\ n > 0) =>
                     calls[i].outcome.value = RecordOf(i, 1)

\* C8: an operation whose execution fails fails with that same failure, runs
\* no conversion and resolves to nothing; reloadConnection settles exactly as
\* its execution does.
C8_FailurePropagates ==
    \A i \in CallIds :
        /\ calls[i].spawn.state = "rejected" =>
              /\ calls[i].conversions = 0
              /\ calls[i].outcome.state # "fulfilled"
              /\ calls[i].pc = "done" => calls[i].outcome = calls[i].spawn
        /\ (calls[i].op = "reloadConnection" /\ calls[i].pc = "done") =>
              /\ calls[i].outcome = calls[i].spawn
              /\ calls[i].conversions = 0

\* C8 witness: an async operation and a reload both ended by a failed
\* execution, with different failures.
C8_Witness ==
    \E i, j \in CallIds :
        /\ calls[i].pc = "done" /\ calls[i].op = "getConfigurations"
        /\ calls[i].spawn.state = "rejected"
        /\ calls[j].pc = "done" /\ calls[j].op = "reloadConnection"
        /\ calls[j].spawn.state = "rejected"
        /\ calls[i].spawn # calls[j].spawn

\* C9: with operations in flight together, each settles as it would alone on
\* its own text and list tags; the shared RegExp is left with lastIndex 0
\* between conversions; the captured text and the list tags are unchanged.
C9_Independent ==
    /\ emptyTagsRegExp = [lastIndex |-> 0]
    /\ \A i \in CallIds :
          /\ (calls[i].pc = "done" /\ calls[i].op \in AsyncOps) =>
                calls[i].outcome = AloneOutcome(i)
          /\ calls[i].pc # "idle" => calls[i].list = ListElementsOf(calls[i].op)

\* C9 witness: a conversion of a text with an empty tag has run while another
\* call, whose text also has one, was still suspended, and that one has run
\* after it.
C9_Witness ==
    \E i, j \in CallIds :
        /\ i # j
        /\ Converted(i) /\ Converted(j)
        /\ calls[i].op # calls[j].op
        /\ Occurrences(calls[i].spawn.value.s) # {}
        /\ Occurrences(calls[j].spawn.value.s) # {}
        /\ calls[i].outcome.state = "fulfilled"
        /\ calls[j].outcome.state = "fulfilled"

=============================================================================
